---- MODULE Spec2Model ----
(***************************************************************************)
(* Model of src/util/common-translation.ts: the language resolver          *)
(* (findAvailableLanguage, getLocalLanguage) and the translation fetcher   *)
(* (fetchTranslation, getTranslation) with its in-memory promise cache.    *)
(*                                                                         *)
(* Strings are sequences of one-character strings, so that toLowerCase,    *)
(* split, includes, replace and the template literals are computed.        *)
(***************************************************************************)
EXTENDS Naturals, Integers, Sequences, FiniteSets, TLC

VARIABLES
  metadata,      \* translationMetadata.translations: ordered <<[lang, hash]>>
  translations,  \* the cache: fingerprint -> index into entries
  entries,       \* the promises stored in the cache (line 140-149)
  requests,      \* every fetch() issued, with its status
  calls,         \* log of the top-level getTranslation calls
  storedSel,     \* STORAGE.selectedLanguage
  navLanguages,  \* navigator.languages
  navLanguage,   \* navigator.language
  localResult,   \* outcome of the last getLocalLanguage() call
  findResult,    \* argument and outcome of the last findAvailableLanguage call
  userResult,    \* preference and outcome of the last getUserLanguage call
  pathResult     \* arguments, fingerprint and URL of the last path computed

vars == <<metadata, translations, entries, requests, calls,
          storedSel, navLanguages, navLanguage, localResult,
          findResult, userResult, pathResult>>

fetchVars == <<translations, entries, requests, calls>>
localVars == <<storedSel, navLanguages, navLanguage, localResult>>
probeVars == <<findResult, userResult, pathResult>>

----------------------------------------------------------------------------
(* Bounds *)
MaxCalls == 2
MaxRequests == 3
MaxLocales == 2

----------------------------------------------------------------------------
(* JavaScript values that are not strings *)
NULL == <<"#null">>
UNDEFINED == <<"#undefined">>

\* non-string values carry a tag in front: <<"#number", "7">>, <<"#object">>
Tags == {"#null", "#undefined", "#number", "#true", "#false", "#object",
         "#array", "#function"}

IsString(v) == Len(v) = 0 \/ v[1] \notin Tags

\* ToBoolean
Truthy(v) ==
  v \notin {NULL, UNDEFINED, <<>>, <<"#false">>, <<"#number", "0">>}

(* String literals *)
EN == <<"e", "n">>
FR == <<"f", "r">>
XX == <<"x", "x">>
LOGBOOK == <<"l", "o", "g", "b", "o", "o", "k">>
HASH_EN == <<"a", "b", "c">>
HASH_FR == <<"d", "e", "f">>
DOT_JSON == <<".", "j", "s", "o", "n">>
SUPERVISOR_SLASH == <<"s", "u", "p", "e", "r", "v", "i", "s", "o", "r", "/">>

----------------------------------------------------------------------------
(* translationMetadata.translations *)
MetaKeys(m) == {m[i].lang : i \in 1..Len(m)}

\* translationMetadata.translations[language]
MetaLookup(m, language) ==
  IF language \in MetaKeys(m)
  THEN (CHOOSE i \in 1..Len(m) : m[i].lang = language)
  ELSE 0

FetchMetadatas ==
  { << [lang |-> EN, hash |-> HASH_EN], [lang |-> FR, hash |-> HASH_FR] >>,
    << [lang |-> FR, hash |-> HASH_FR] >> }

----------------------------------------------------------------------------
(* String.prototype.replace(pattern, "") with a string pattern: removes the *)
(* first occurrence only.                                                   *)
StartsWithAt(s, i, pat) ==
  /\ i + Len(pat) - 1 <= Len(s)
  /\ \A k \in 1..Len(pat) : s[i + k - 1] = pat[k]

ReplaceFirst(s, pat) ==
  LET hits == {i \in 1..Len(s) : StartsWithAt(s, i, pat)} IN
  IF hits = {} THEN s
  ELSE LET i == CHOOSE h \in hits : \A g \in hits : h <= g IN
       SubSeq(s, 1, i - 1) \o SubSeq(s, i + Len(pat), Len(s))

\* nl-abcd.json or logbook/nl-abcd.json (line 134-136)
Fingerprint(fragment, language, hash) ==
  (IF Truthy(fragment) THEN fragment \o <<"/">> ELSE <<>>)
    \o language \o <<"-">> \o hash \o DOT_JSON

\* a buggy variant: the prefix is stripped in both modes
RequestPathAlwaysStrips(fingerprint, supervisor) ==
  (IF supervisor THEN <<"/api/hassio/app/static/translations/">>
   ELSE <<"/static/translations/">>)
    \o ReplaceFirst(fingerprint, SUPERVISOR_SLASH)

\* the URL handed to fetch() (line 102-107)
RequestPath(fingerprint, supervisor) ==
  IF supervisor
  THEN <<"/api/hassio/app/static/translations/">>
         \o ReplaceFirst(fingerprint, SUPERVISOR_SLASH)
  ELSE <<"/static/translations/">> \o fingerprint

----------------------------------------------------------------------------
(* Language resolver *)

UpperCase == <<"A", "B", "C", "D", "E", "F", "G", "H", "I", "J", "K", "L", "M",
               "N", "O", "P", "Q", "R", "S", "T", "U", "V", "W", "X", "Y", "Z">>
LowerCase == <<"a", "b", "c", "d", "e", "f", "g", "h", "i", "j", "k", "l", "m",
               "n", "o", "p", "q", "r", "s", "t", "u", "v", "w", "x", "y", "z">>

\* a buggy variant: the comparison keeps the letter case
ToLowerCaseKeepsCase(s) == s

\* String.prototype.toLowerCase
ToLowerCase(s) ==
  [i \in 1..Len(s) |->
     IF \E k \in 1..26 : UpperCase[k] = s[i]
     THEN LowerCase[CHOOSE k \in 1..26 : UpperCase[k] = s[i]]
     ELSE s[i]]

\* String.prototype.includes("-")
Includes(s, ch) == \E i \in 1..Len(s) : s[i] = ch

\* String.prototype.split("-")[0]
SplitFirst(s, ch) ==
  IF Includes(s, ch)
  THEN SubSeq(s, 1, (CHOOSE i \in 1..Len(s) :
                       s[i] = ch /\ \A k \in 1..(i - 1) : s[k] # ch) - 1)
  ELSE s

ZH_HANS == <<"z", "h", "-", "H", "a", "n", "s">>
ZH_HANT == <<"z", "h", "-", "H", "a", "n", "t">>
OBJECT_CONSTRUCTOR == <<"#function", "O", "b", "j", "e", "c", "t">>

\* line 8-16
LOCALE_LOOKUP ==
  << [key |-> <<"z", "h", "-", "c", "n">>, value |-> ZH_HANS],
     [key |-> <<"z", "h", "-", "s", "g">>, value |-> ZH_HANS],
     [key |-> <<"z", "h", "-", "m", "y">>, value |-> ZH_HANS],
     [key |-> <<"z", "h", "-", "t", "w">>, value |-> ZH_HANT],
     [key |-> <<"z", "h", "-", "h", "k">>, value |-> ZH_HANT],
     [key |-> <<"z", "h", "-", "m", "o">>, value |-> ZH_HANT],
     [key |-> <<"z", "h">>, value |-> ZH_HANT] >>

\* LOCALE_LOOKUP is an object literal: the lower-case property it inherits
\* from Object.prototype is also found by the in operator
LOCALE_LOOKUP_INHERITED ==
  << [key |-> <<"c", "o", "n", "s", "t", "r", "u", "c", "t", "o", "r">>,
      value |-> OBJECT_CONSTRUCTOR] >>

LocaleLookupAll == LOCALE_LOOKUP \o LOCALE_LOOKUP_INHERITED

\* langLower in LOCALE_LOOKUP (line 31)
InLocaleLookup(k) == \E i \in 1..Len(LocaleLookupAll) : LocaleLookupAll[i].key = k

\* LOCALE_LOOKUP[langLower] (line 32)
LocaleLookupGet(k) ==
  LocaleLookupAll[CHOOSE i \in 1..Len(LocaleLookupAll) :
                    LocaleLookupAll[i].key = k].value

\* ToPropertyKey, for the left operand of the in operator
PropertyKey(v) ==
  IF IsString(v) THEN v
  ELSE IF v = UNDEFINED THEN <<"u", "n", "d", "e", "f", "i", "n", "e", "d">>
  ELSE IF v = NULL THEN <<"n", "u", "l", "l">>
  ELSE IF v = <<"#true">> THEN <<"t", "r", "u", "e">>
  ELSE IF v = <<"#false">> THEN <<"f", "a", "l", "s", "e">>
  ELSE IF v[1] = "#object" THEN <<"[", "o", "b", "j", "e", "c", "t", " ",
                                   "O", "b", "j", "e", "c", "t", "]">>
  ELSE Tail(v)   \* a number or a one-element array of a string

Return(v) == [t |-> "return", v |-> v]
Throw(e) == [t |-> "throw", v |-> e]
TypeError == <<"#object", "TypeError">>
SyntaxError == <<"#object", "SyntaxError">>

\* line 21-38
findAvailableLanguage(language, m) ==
  IF PropertyKey(language) \in MetaKeys(m) THEN Return(language)
  ELSE IF ~IsString(language) THEN Throw(TypeError)  \* no toLowerCase method
  ELSE
    LET langLower == ToLowerCase(language) IN
    IF InLocaleLookup(langLower) THEN Return(LocaleLookupGet(langLower))
    ELSE
      LET hits == {i \in 1..Len(m) : ToLowerCase(m[i].lang) = langLower} IN
      IF hits = {} THEN Return(UNDEFINED)
      ELSE Return(m[CHOOSE i \in hits : \A k \in hits : i <= k].lang)

\* line 43-53; preference is what fetchTranslationPreferences(hass) settles to
getUserLanguage(preference, m) ==
  IF preference.settled = "rejected" THEN Throw(<<"#object", "Error">>)
  ELSE
    LET language == IF preference.hasResult THEN preference.language ELSE NULL IN
    IF Truthy(language)
    THEN LET availableLanguage == findAvailableLanguage(language, m) IN
         IF availableLanguage.t = "throw" THEN availableLanguage
         ELSE IF Truthy(availableLanguage.v) THEN availableLanguage
         ELSE Return(NULL)
    ELSE Return(NULL)

Digits == {"0", "1", "2", "3", "4", "5", "6", "7", "8", "9"}

\* a JSON string literal without escapes
IsStringLiteral(raw) ==
  /\ Len(raw) >= 2
  /\ raw[1] = "\"" /\ raw[Len(raw)] = "\""
  /\ \A i \in 2..(Len(raw) - 1) : raw[i] \notin {"\"", "\\"}

\* JSON.parse, for the texts of StoredSelections
JSONParse(raw) ==
  IF IsStringLiteral(raw) THEN Return(SubSeq(raw, 2, Len(raw) - 1))
  ELSE IF raw = <<"n", "u", "l", "l">> THEN Return(NULL)
  ELSE IF raw = <<"t", "r", "u", "e">> THEN Return(<<"#true">>)
  ELSE IF raw = <<"f", "a", "l", "s", "e">> THEN Return(<<"#false">>)
  ELSE IF raw = <<"{", "}">> THEN Return(<<"#object">>)
  ELSE IF /\ Len(raw) >= 1
          /\ \A i \in 1..Len(raw) : raw[i] \in Digits
          /\ (Len(raw) > 1 => raw[1] # "0")
  THEN Return(<<"#number">> \o raw)
  ELSE IF /\ Len(raw) >= 2
          /\ raw[1] = "[" /\ raw[Len(raw)] = "]"
          /\ IsStringLiteral(SubSeq(raw, 2, Len(raw) - 1))
  THEN Return(<<"#array">> \o SubSeq(raw, 3, Len(raw) - 2))
  ELSE Throw(SyntaxError)

\* a buggy variant: the parse error of the stored selection is not caught
storedSelectionUncaught(stored, m) ==
  IF Truthy(stored)
  THEN LET parsed == JSONParse(stored) IN
       IF parsed.t = "throw" THEN parsed
       ELSE IF Truthy(parsed.v)
       THEN LET language == findAvailableLanguage(parsed.v, m) IN
            IF language.t = "throw" THEN Return(UNDEFINED)
            ELSE IF Truthy(language.v) THEN language
            ELSE Return(UNDEFINED)
       ELSE Return(UNDEFINED)
  ELSE Return(UNDEFINED)

\* line 60-72: the language of the stored selection, undefined when the
\* function goes on to the next signal
storedSelection(stored, m) ==
  IF Truthy(stored)
  THEN LET parsed == JSONParse(stored) IN
       IF parsed.t = "throw" THEN Return(UNDEFINED)   \* Ignore parsing error.
       ELSE IF Truthy(parsed.v)
       THEN LET language == findAvailableLanguage(parsed.v, m) IN
            IF language.t = "throw" THEN Return(UNDEFINED)
            ELSE IF Truthy(language.v) THEN language
            ELSE Return(UNDEFINED)
       ELSE Return(UNDEFINED)
  ELSE Return(UNDEFINED)

\* line 74-79: the first entry of navigator.languages that is available
RECURSIVE firstAvailable(_, _)
firstAvailable(locales, m) ==
  IF locales = << >> THEN Return(UNDEFINED)
  ELSE LET language == findAvailableLanguage(Head(locales), m) IN
       IF language.t = "throw" THEN language
       ELSE IF Truthy(language.v) THEN language
       ELSE firstAvailable(Tail(locales), m)

\* line 58-94; languages is [present, list] for navigator.languages
getLocalLanguage(stored, languages, language, m) ==
  LET s == storedSelection(stored, m) IN
  IF s.t = "throw" \/ Truthy(s.v) THEN s
  ELSE
    LET l == IF languages.present THEN firstAvailable(languages.list, m)
             ELSE Return(UNDEFINED) IN
    IF l.t = "throw" \/ Truthy(l.v) THEN l
    ELSE
      LET p == findAvailableLanguage(language, m) IN
      IF p.t = "throw" \/ Truthy(p.v) THEN p
      ELSE
        IF Truthy(language) /\ Includes(language, "-")
        THEN LET b == findAvailableLanguage(SplitFirst(language, "-"), m) IN
             IF b.t = "throw" \/ Truthy(b.v) THEN b
             ELSE Return(EN)
        ELSE Return(EN)   \* Final fallback

----------------------------------------------------------------------------
(* Responses the network can give to one fetch() *)
Responses ==
  { [kind |-> "transport", ok |-> FALSE, body |-> "none"],
    [kind |-> "http", ok |-> FALSE, body |-> "none"],
    [kind |-> "http", ok |-> TRUE, body |-> "garbled"],
    [kind |-> "http", ok |-> TRUE, body |-> "bundle1"],
    [kind |-> "http", ok |-> TRUE, body |-> "bundle2"] }

\* fetchTranslation's settlement for a response (line 101-117)
fetchTranslation(response) ==
  IF response.kind = "transport"
  THEN [t |-> "rejected", v |-> "TypeError: Failed to fetch"]
  ELSE IF ~response.ok
  THEN [t |-> "rejected", v |-> "Error: Fail to fetch translation"]
  ELSE IF response.body = "garbled"
  THEN [t |-> "rejected", v |-> "SyntaxError: Unexpected token"]
  ELSE [t |-> "resolved", v |-> response.body]

ConfigError == "Error: Language en is not found in metadata"

----------------------------------------------------------------------------
(* getTranslation (line 120-152), as a function of the cache state.        *)
(* st = [translations, entries, requests, ret, issued]; ret is the index   *)
(* of the cache entry the returned promise adopts, or 0 when the call      *)
(* throws the configuration error.                                         *)

\* a buggy variant: the cache is never consulted
CacheMissAlways(t, fingerprint) == TRUE

\* a buggy variant: only a settled value counts as cached
CacheMissWhilePending(t, fingerprint) ==
  fingerprint \notin DOMAIN t \/ entries[t[fingerprint]].state = "pending"

\* line 139: if (!translations[fingerprint])
CacheMiss(t, fingerprint) == fingerprint \notin DOMAIN t

\* a buggy variant: every failure falls back, also a failure of "en"
FallsBackAlways(language) == TRUE

\* a buggy variant: a failure is never recovered
FallsBackNever(language) == FALSE

\* line 144: if (language !== "en")
FallsBack(language) == language # EN

\* a buggy variant: an entry made in the other mode does not count as cached
cachedFetchPerMode(st, fragment, language, hash, supervisor) ==
  LET fingerprint == Fingerprint(fragment, language, hash) IN
  IF \/ CacheMiss(st.translations, fingerprint)
     \/ st.entries[st.translations[fingerprint]].supervisor # supervisor
  THEN
    LET r == Len(st.requests) + 1
        e == Len(st.entries) + 1
        req == [fp |-> fingerprint, supervisor |-> supervisor,
                path |-> RequestPath(fingerprint, supervisor),
                status |-> "inflight"]
        ent == [fp |-> fingerprint, fragment |-> fragment,
                language |-> language, supervisor |-> supervisor,
                req |-> r, state |-> "pending", value |-> "none", next |-> 0]
    IN [translations |->
          [f \in DOMAIN st.translations \cup {fingerprint} |->
             IF f = fingerprint THEN e ELSE st.translations[f]],
        entries |-> Append(st.entries, ent),
        requests |-> Append(st.requests, req),
        ret |-> e,
        issued |-> st.issued \cup {r}]
  ELSE [st EXCEPT !.ret = st.translations[fingerprint]]

\* line 139-151: the cached promise for the fingerprint, created on a miss
cachedFetch(st, fragment, language, hash, supervisor) ==
  LET fingerprint == Fingerprint(fragment, language, hash) IN
  IF CacheMiss(st.translations, fingerprint)
  THEN
    LET r == Len(st.requests) + 1
        e == Len(st.entries) + 1
        req == [fp |-> fingerprint, supervisor |-> supervisor,
                path |-> RequestPath(fingerprint, supervisor),
                status |-> "inflight"]
        ent == [fp |-> fingerprint, fragment |-> fragment,
                language |-> language, supervisor |-> supervisor,
                req |-> r, state |-> "pending", value |-> "none", next |-> 0]
    IN [translations |->
          [f \in DOMAIN st.translations \cup {fingerprint} |->
             IF f = fingerprint THEN e ELSE st.translations[f]],
        entries |-> Append(st.entries, ent),
        requests |-> Append(st.requests, req),
        ret |-> e,
        issued |-> st.issued \cup {r}]
  ELSE [st EXCEPT !.ret = st.translations[fingerprint]]

RECURSIVE getTranslation(_, _, _, _)

\* a buggy variant: the recursion for a missing language drops the fragment
getTranslationDropsFragment(st, fragment, language, supervisor) ==
  LET m == MetaLookup(metadata, language) IN
  IF m = 0
  THEN IF language # EN
       THEN getTranslation(st, NULL, EN, supervisor)
       ELSE [st EXCEPT !.ret = 0]
  ELSE cachedFetch(st, fragment, language, metadata[m].hash, supervisor)

\* a buggy variant: a missing "en" is fetched with an undefined hash
getTranslationNoThrow(st, fragment, language, supervisor) ==
  LET m == MetaLookup(metadata, language) IN
  IF m = 0
  THEN cachedFetch(st, fragment, EN, UNDEFINED, supervisor)
  ELSE cachedFetch(st, fragment, language, metadata[m].hash, supervisor)

getTranslation(st, fragment, language, supervisor) ==
  LET m == MetaLookup(metadata, language) IN
  IF m = 0
  THEN IF language # EN
       THEN getTranslation(st, fragment, EN, supervisor)
       ELSE [st EXCEPT !.ret = 0]
  ELSE cachedFetch(st, fragment, language, metadata[m].hash, supervisor)

CurrentState ==
  [translations |-> translations, entries |-> entries,
   requests |-> requests, ret |-> 0, issued |-> {}]

----------------------------------------------------------------------------
(* Settlement of promises *)

\* a buggy variant: the value names the default language
ResolvedAsEn(language, data) ==
  [t |-> "resolved", language |-> EN, data |-> data]

\* line 141: .then((data) => ({ language, data }))
Resolved(language, data) ==
  [t |-> "resolved", language |-> language, data |-> data]

\* a buggy variant: the entry does not follow the promise of its fallback
EntryOutcomeIgnoresFallback(es, e) ==
  IF es[e].state = "fulfilled" THEN Resolved(es[e].language, es[e].value)
  ELSE IF es[e].state = "rejected"
  THEN [t |-> "rejected", error |-> es[e].value]
  ELSE [t |-> "pending"]

RECURSIVE EntryOutcome(_, _)
EntryOutcome(es, e) ==
  IF es[e].state = "pending" THEN [t |-> "pending"]
  ELSE IF es[e].state = "fulfilled"
  THEN Resolved(es[e].language, es[e].value)
  ELSE IF es[e].state = "rejected"
  THEN [t |-> "rejected", error |-> es[e].value]
  ELSE \* adopted the promise of getTranslation(fragment, "en", supervisor)
    IF es[e].next = 0 THEN [t |-> "rejected", error |-> ConfigError]
    ELSE EntryOutcome(es, es[e].next)

\* what the promise returned by a call has settled to
RetOutcome(es, ret) ==
  IF ret = 0 THEN [t |-> "rejected", error |-> ConfigError]
  ELSE EntryOutcome(es, ret)

CallOutcome(c) == RetOutcome(entries, calls[c].ret)

Settled(c) == CallOutcome(c).t # "pending"

\* the request made for the call's own fingerprint has not completed yet
Fetching(c) == calls[c].ret # 0 /\ entries[calls[c].ret].state = "pending"

\* the cache entries a promise runs through: its own and its fallback's
RECURSIVE Chain(_, _)
Chain(es, e) ==
  IF e = 0 THEN {}
  ELSE {e} \cup (IF es[e].state = "fallback" THEN Chain(es, es[e].next) ELSE {})

----------------------------------------------------------------------------
(* Inputs of the calls *)
CallLanguages == {EN, FR, XX}
CallFragments == {NULL, LOGBOOK}

\* the fingerprint a call computes (line 125-136), NULL when it throws
ComputedFingerprint(fragment, language) ==
  LET l == IF MetaLookup(metadata, language) = 0 THEN EN ELSE language
      m == MetaLookup(metadata, l)
  IN IF m = 0 THEN NULL ELSE Fingerprint(fragment, l, metadata[m].hash)

\* requests issued so far for a fingerprint
RequestsFor(rs, fp) == {r \in 1..Len(rs) : rs[r].fp = fp}

LastRequestFor(rs, fp) ==
  IF RequestsFor(rs, fp) = {} THEN 0
  ELSE CHOOSE r \in RequestsFor(rs, fp) : \A q \in RequestsFor(rs, fp) : q <= r

----------------------------------------------------------------------------
(* Actions of the translation fetcher *)

\* some caller invokes getTranslation(fragment, language, supervisor)
CallGetTranslation(fragment, language, supervisor) ==
  /\ Len(calls) < MaxCalls
  /\ LET st == getTranslation(CurrentState, fragment, language, supervisor)
         fp == ComputedFingerprint(fragment, language)
         last == LastRequestFor(requests, fp)
     IN /\ Len(st.requests) <= MaxRequests
        /\ translations' = st.translations
        /\ entries' = st.entries
        /\ requests' = st.requests
        /\ calls' = Append(calls,
             [fragment |-> fragment, language |-> language,
              supervisor |-> supervisor, fp |-> fp,
              ret |-> st.ret, issued |-> st.issued,
              unsettled |-> {c \in 1..Len(calls) : ~Settled(c)},
              fetching |-> {c \in 1..Len(calls) : Fetching(c)},
              afterFailure |-> (last # 0 /\ requests[last].status = "failed"),
              afterSuccess |-> (last # 0 /\ requests[last].status = "ok"),
              seen |-> Len(requests),
              live |-> {translations[f] : f \in DOMAIN translations},
              before |-> DOMAIN translations, after |-> DOMAIN st.translations])
  /\ UNCHANGED <<metadata, localVars, probeVars>>

\* a buggy variant: the failed entry stays in the cache
DeleteNothing(t, fingerprint) == t

\* delete translations[fingerprint] (line 143)
Delete(t, fingerprint) == [f \in DOMAIN t \ {fingerprint} |-> t[f]]

\* the network answers request r; the .then/.catch chain of line 140-149 runs
FetchSettles(r, response) ==
  /\ r \in 1..Len(requests)
  /\ requests[r].status = "inflight"
  /\ LET res == fetchTranslation(response)
         e == CHOOSE x \in 1..Len(entries) : entries[x].req = r
         ent == entries[e]
     IN IF res.t = "resolved"
        THEN /\ requests' = [requests EXCEPT ![r].status = "ok"]
             /\ entries' = [entries EXCEPT ![e].state = "fulfilled",
                                            ![e].value = res.v]
             /\ translations' = translations
        ELSE
          LET failed == [requests EXCEPT ![r].status = "failed"]
              deleted == Delete(translations, ent.fp)
          IN IF FallsBack(ent.language)
             THEN LET st == getTranslation(
                              [translations |-> deleted, entries |-> entries,
                               requests |-> failed, ret |-> 0, issued |-> {}],
                              ent.fragment, EN, ent.supervisor)
                  IN /\ Len(st.requests) <= MaxRequests
                     /\ requests' = st.requests
                     /\ translations' = st.translations
                     /\ entries' = [st.entries EXCEPT ![e].state = "fallback",
                                                      ![e].next = st.ret]
             ELSE /\ requests' = failed
                  /\ translations' = deleted
                  /\ entries' = [entries EXCEPT ![e].state = "rejected",
                                                 ![e].value = res.v]
  /\ UNCHANGED <<metadata, calls, localVars, probeVars>>

Init ==
  /\ metadata \in FetchMetadatas
  /\ translations = << >>
  /\ entries = << >>
  /\ requests = << >>
  /\ calls = << >>
  /\ storedSel = UNDEFINED
  /\ navLanguages = [present |-> FALSE, list |-> << >>]
  /\ navLanguage = UNDEFINED
  /\ localResult = [t |-> "none"]
  /\ findResult = [called |-> FALSE]
  /\ userResult = [called |-> FALSE]
  /\ pathResult = [called |-> FALSE]

Next ==
  \/ \E fragment \in CallFragments, language \in CallLanguages,
         supervisor \in BOOLEAN :
        CallGetTranslation(fragment, language, supervisor)
  \/ \E r \in 1..MaxRequests, response \in Responses : FetchSettles(r, response)

Spec == Init /\ [][Next]_vars

----------------------------------------------------------------------------
TypeOK ==
  /\ Len(calls) <= MaxCalls
  /\ Len(requests) <= MaxRequests
  /\ \A fp \in DOMAIN translations : translations[fp] \in 1..Len(entries)

----------------------------------------------------------------------------
(* Properties of the translation fetcher *)

CallIds == 1..Len(calls)
InFlight(fp) == {r \in RequestsFor(requests, fp) : requests[r].status = "inflight"}
SameArguments(c, d) ==
  /\ calls[c].fragment = calls[d].fragment
  /\ calls[c].language = calls[d].language
  /\ calls[c].supervisor = calls[d].supervisor

\* the entry whose fetch is request r
EntryOfRequest(r) == CHOOSE e \in 1..Len(entries) : entries[e].req = r

\* the fingerprint of the "en" bundle of a fragment
EnFingerprint(fragment) == ComputedFingerprint(fragment, EN)

\* C1: in every reachable state at most one network request is in flight
\* for any fingerprint.
C1_OneFetchInFlightPerFingerprint ==
  \A r \in 1..Len(requests) : Cardinality(InFlight(requests[r].fp)) <= 1

\* two calls computed the same fingerprint while its request is in flight
C1_Witness ==
  \E c, d \in CallIds :
     /\ c < d
     /\ calls[c].fp = calls[d].fp
     /\ calls[c].fp # NULL
     /\ c \in calls[d].fetching
     /\ Cardinality(InFlight(calls[c].fp)) = 1

\* what C2 promises of a first call c and a later identical call d
SharesOneRequest(c, d) ==
  /\ calls[d].issued = {}
  /\ calls[d].ret = calls[c].ret
  /\ CallOutcome(d) = CallOutcome(c)

\* C2 as stated: two identical calls, the second made before the first has
\* settled, issue one request for their fingerprint and get the same outcome.
C2_Original ==
  \A c, d \in CallIds :
     (c < d /\ SameArguments(c, d) /\ c \in calls[d].unsettled)
        => SharesOneRequest(c, d)

\* C2 amended: two identical calls, the second made while the request for
\* the first call's fingerprint is still in flight, issue one request for
\* that fingerprint between them and get the same outcome.
C2_SharedWhileFetching ==
  \A c, d \in CallIds :
     (c < d /\ SameArguments(c, d) /\ c \in calls[d].fetching)
        => SharesOneRequest(c, d)

\* two identical concurrent calls, both settled
C2_Witness ==
  \E c, d \in CallIds :
     /\ c < d /\ SameArguments(c, d) /\ c \in calls[d].fetching
     /\ Settled(c) /\ Settled(d)

\* C3: for a language L other than "en" present in the metadata, when the
\* fetch of L fails the "en" fetch for the same fragment is awaited, and when
\* that one succeeds the call resolves with { language: "en", data: en bundle }.
C3_FallbackResolvesWithEn ==
  \A c \in CallIds :
     LET e == calls[c].ret IN
     ( /\ calls[c].language # EN
       /\ calls[c].language \in MetaKeys(metadata)
       /\ EN \in MetaKeys(metadata)
       /\ requests[entries[e].req].status = "failed" )
     =>
     /\ entries[e].state = "fallback"
     /\ entries[e].next # 0
     /\ entries[entries[e].next].fp = EnFingerprint(calls[c].fragment)
     /\ requests[entries[entries[e].next].req].status = "ok"
          => CallOutcome(c) = [t |-> "resolved", language |-> EN,
                               data |-> entries[entries[e].next].value]

\* a call for "fr" whose fetch failed and whose "en" fetch succeeded
C3_Witness ==
  \E c \in CallIds :
     /\ calls[c].language = FR
     /\ calls[c].ret # 0
     /\ requests[entries[calls[c].ret].req].status = "failed"
     /\ CallOutcome(c).t = "resolved"
     /\ CallOutcome(c).language = EN

\* C4: after the fetch for a fingerprint failed the cache holds no entry for
\* it, and the next call computing that fingerprint issues a new request.
C4_FailedEntryIsRetried ==
  /\ \A r \in 1..Len(requests) :
        ( /\ r = LastRequestFor(requests, requests[r].fp)
          /\ requests[r].status = "failed" )
        => requests[r].fp \notin DOMAIN translations
  /\ \A c \in CallIds :
        calls[c].afterFailure
        => \E r \in calls[c].issued : requests[r].fp = calls[c].fp

\* a call retried a failed fingerprint while the "en" fallback of the failed
\* attempt was still pending
C4_Witness ==
  \E c, d \in CallIds :
     /\ c < d
     /\ calls[c].fp = calls[d].fp
     /\ calls[d].afterFailure
     /\ c \in calls[d].unsettled

\* s contains pat
Contains(s, pat) == \E i \in 1..Len(s) : StartsWithAt(s, i, pat)

\* C5: for a language X absent from the metadata, with "en" present,
\* getTranslation(fragment, X, mode) has the effect and the result of
\* getTranslation(fragment, "en", mode) in the same cache state, requests
\* nothing that names X and creates no cache entry but the "en" one.
C5_AbsentLanguageIsEn ==
  EN \in MetaKeys(metadata) =>
    /\ \A fragment \in CallFragments, supervisor \in BOOLEAN :
       \A X \in CallLanguages \ MetaKeys(metadata) :
         LET st == getTranslation(CurrentState, fragment, X, supervisor) IN
         /\ st = getTranslation(CurrentState, fragment, EN, supervisor)
         /\ \A r \in st.issued : ~Contains(st.requests[r].path, X)
         /\ DOMAIN st.translations \ DOMAIN translations
               \subseteq {EnFingerprint(fragment)}
    /\ \A c \in CallIds :
         calls[c].language \notin MetaKeys(metadata) =>
           /\ calls[c].ret # 0
           /\ entries[calls[c].ret].fp = EnFingerprint(calls[c].fragment)
           /\ entries[calls[c].ret].language = EN
           /\ \A r \in calls[c].issued : ~Contains(requests[r].path, XX)
           /\ calls[c].after \ calls[c].before
                 \subseteq {EnFingerprint(calls[c].fragment)}

\* a call for the absent language created the "en" entry and has resolved
C5_Witness ==
  /\ EN \in MetaKeys(metadata)
  /\ \E c \in CallIds :
       /\ calls[c].language = XX
       /\ calls[c].fragment = LOGBOOK
       /\ calls[c].issued # {}
       /\ CallOutcome(c).t = "resolved"

\* C6: when "en" is absent from the metadata, getTranslation for "en" or for
\* another absent language fails with the configuration error, issues no
\* request and leaves the cache unchanged.
C6_MissingEnIsFatal ==
  EN \notin MetaKeys(metadata) =>
    /\ \A fragment \in CallFragments, supervisor \in BOOLEAN :
       \A X \in CallLanguages \ MetaKeys(metadata) :
         getTranslation(CurrentState, fragment, X, supervisor) = CurrentState
    /\ \A c \in CallIds :
         calls[c].language \notin MetaKeys(metadata) =>
           /\ CallOutcome(c) = [t |-> "rejected", error |-> ConfigError]
           /\ calls[c].issued = {}
           /\ calls[c].after = calls[c].before

\* with "en" missing, "xx" was asked for while a request for "fr" was in the
\* cache
C6_Witness ==
  /\ EN \notin MetaKeys(metadata)
  /\ \E c \in CallIds :
       /\ calls[c].language = XX
       /\ calls[c].before # {}
       /\ CallOutcome(c) = [t |-> "rejected", error |-> ConfigError]

\* the requests made on behalf of a call
OnBehalf(c) == {entries[e].req : e \in Chain(entries, calls[c].ret)}

\* C7: a call causes at most two requests, at most one for the requested
\* language and at most one for "en"; a failed "en" fetch rejects the call
\* and no further request follows.
C7_AtMostOneFallback ==
  \A c \in CallIds :
     /\ Cardinality(OnBehalf(c)) <= 2
     /\ Cardinality({r \in OnBehalf(c) : requests[r].fp = calls[c].fp}) <= 1
     /\ Cardinality({r \in OnBehalf(c) :
                       requests[r].fp = EnFingerprint(calls[c].fragment)}) <= 1
     /\ \A r \in OnBehalf(c) :
           requests[r].fp \in {calls[c].fp, EnFingerprint(calls[c].fragment)}
     /\ \A r \in OnBehalf(c) :
           ( /\ requests[r].fp = EnFingerprint(calls[c].fragment)
             /\ requests[r].status = "failed" )
           => /\ CallOutcome(c).t = "rejected"
              /\ entries[EntryOfRequest(r)].state = "rejected"

\* a call whose own fetch and whose "en" fetch both failed
C7_Witness ==
  \E c \in CallIds :
     /\ calls[c].language = FR
     /\ Cardinality(OnBehalf(c)) = 2
     /\ \A r \in OnBehalf(c) : requests[r].status = "failed"
     /\ CallOutcome(c).t = "rejected"

----------------------------------------------------------------------------
(* The language resolver: inputs and the call of getLocalLanguage *)

PT_BR == <<"p", "t", "-", "B", "R">>

LocalMetadatas ==
  { << [lang |-> EN, hash |-> HASH_EN], [lang |-> FR, hash |-> HASH_FR] >>,
    << [lang |-> FR, hash |-> HASH_FR], [lang |-> PT_BR, hash |-> HASH_EN],
       [lang |-> ZH_HANT, hash |-> HASH_FR] >> }

\* what a browser may report
Locales ==
  { EN, <<"F", "R">>, <<"p", "t", "-", "b", "r">>, <<"z", "h", "-", "C", "N">>,
    <<"f", "r", "-", "C", "A">>, <<"d", "e">>,
    <<"C", "o", "n", "s", "t", "r", "u", "c", "t", "o", "r">> }

PrimaryLanguages == Locales \cup {UNDEFINED, << >>}

\* texts of STORAGE.selectedLanguage that JSON.parse rejects
MalformedSelections ==
  { <<"f", "r">>, <<"\"", "f", "r">> }

\* STORAGE.selectedLanguage: absent, empty, malformed, or JSON of a string,
\* a number, null, an object, an array
StoredSelections ==
  {UNDEFINED, << >>} \cup MalformedSelections \cup
  { <<"\"", "f", "r", "\"">>, <<"\"", "F", "R", "\"">>,
    <<"\"", "d", "e", "\"">>, <<"7">>, <<"n", "u", "l", "l">>, <<"{", "}">>,
    <<"[", "\"", "f", "r", "\"", "]">> }

LocaleLists == UNION {[1..k -> Locales] : k \in 0..MaxLocales}

InitLocal ==
  /\ metadata \in LocalMetadatas
  /\ storedSel \in StoredSelections
  /\ navLanguages \in {[present |-> FALSE, list |-> << >>]}
                       \cup {[present |-> TRUE, list |-> l] : l \in LocaleLists}
  /\ navLanguage \in PrimaryLanguages
  /\ localResult = [t |-> "none"]
  /\ findResult = [called |-> FALSE]
  /\ userResult = [called |-> FALSE]
  /\ pathResult = [called |-> FALSE]
  /\ translations = << >>
  /\ entries = << >>
  /\ requests = << >>
  /\ calls = << >>

\* some caller invokes getLocalLanguage()
CallGetLocalLanguage ==
  /\ localResult.t = "none"
  /\ localResult' = getLocalLanguage(storedSel, navLanguages, navLanguage, metadata)
  /\ UNCHANGED <<metadata, fetchVars, storedSel, navLanguages, navLanguage,
                 probeVars>>

NextLocal == CallGetLocalLanguage

SpecLocal == InitLocal /\ [][NextLocal]_vars

----------------------------------------------------------------------------
(* Properties of the language resolver *)

\* the signals of getLocalLanguage in their order of priority
Signals ==
  (IF Truthy(storedSel) /\ JSONParse(storedSel).t = "return"
      /\ Truthy(JSONParse(storedSel).v)
   THEN <<JSONParse(storedSel).v>> ELSE << >>)
  \o (IF navLanguages.present THEN navLanguages.list ELSE << >>)
  \o <<navLanguage>>
  \o (IF IsString(navLanguage) /\ Includes(navLanguage, "-")
      THEN <<SplitFirst(navLanguage, "-")>> ELSE << >>)

\* a signal resolves when findAvailableLanguage yields a language for it
Resolves(signal) ==
  /\ findAvailableLanguage(signal, metadata).t = "return"
  /\ Truthy(findAvailableLanguage(signal, metadata).v)

FirstResolved ==
  LET hits == {i \in 1..Len(Signals) : Resolves(Signals[i])} IN
  IF hits = {} THEN EN
  ELSE findAvailableLanguage(
         Signals[CHOOSE i \in hits : \A k \in hits : i <= k], metadata).v

Called == localResult.t # "none"

\* C8: getLocalLanguage never fails and never returns none, whatever the
\* stored selection, the browser language list and the primary language
\* are; when no signal resolves it returns "en".
C8_Original ==
  Called =>
    /\ localResult.t = "return"
    /\ localResult.v \notin {UNDEFINED, NULL}
    /\ (\A i \in 1..Len(Signals) : ~Resolves(Signals[i])) => localResult.v = EN

\* C9: getLocalLanguage returns the resolution of the first signal that
\* resolves, in the order stored selection, language list, primary language,
\* base subtag of the primary language, and "en" when none resolves.
C9_Original == Called => localResult = Return(FirstResolved)

\* the same order of priority, wherever navigator.language is defined
PriorityOrderWithPrimaryLanguage ==
  (Called /\ navLanguage # UNDEFINED) => localResult = Return(FirstResolved)

\* the same order of priority, wherever the call returns
PriorityOrderWhenReturning ==
  (Called /\ localResult.t = "return") => localResult = Return(FirstResolved)

\* C10: with a stored selection that is not valid JSON, getLocalLanguage
\* gives exactly what it gives with no stored selection at all.
C10_MalformedSelectionIgnored ==
  /\ \A raw \in MalformedSelections : JSONParse(raw).t = "throw"
  /\ (Called /\ storedSel \in MalformedSelections) =>
        localResult =
          getLocalLanguage(UNDEFINED, navLanguages, navLanguage, metadata)

\* a malformed selection was skipped and a browser language decided
C10_Witness ==
  /\ Called
  /\ storedSel \in MalformedSelections
  /\ localResult.t = "return"
  /\ localResult.v = PT_BR

----------------------------------------------------------------------------
(* The language resolver: findAvailableLanguage and getUserLanguage *)

ZH_TW == <<"z", "h", "-", "T", "W">>
DE == <<"d", "e">>

\* spellings of the codes of LOCALE_LOOKUP, with the variant the alias table
\* gives them
AliasSpellings ==
  { [code |-> <<"z", "h", "-", "c", "n">>, variant |-> ZH_HANS],
    [code |-> <<"z", "h", "-", "s", "g">>, variant |-> ZH_HANS],
    [code |-> <<"z", "h", "-", "m", "y">>, variant |-> ZH_HANS],
    [code |-> <<"z", "h", "-", "C", "N">>, variant |-> ZH_HANS],
    [code |-> <<"Z", "H", "-", "S", "G">>, variant |-> ZH_HANS],
    [code |-> <<"z", "h", "-", "t", "w">>, variant |-> ZH_HANT],
    [code |-> <<"z", "h", "-", "h", "k">>, variant |-> ZH_HANT],
    [code |-> <<"z", "h", "-", "m", "o">>, variant |-> ZH_HANT],
    [code |-> <<"z", "h">>, variant |-> ZH_HANT],
    [code |-> ZH_TW, variant |-> ZH_HANT],
    [code |-> <<"Z", "h", "-", "H", "k">>, variant |-> ZH_HANT],
    [code |-> <<"Z", "H">>, variant |-> ZH_HANT] }

FindCodes ==
  {a.code : a \in AliasSpellings} \cup Locales \cup {FR, PT_BR, ZH_HANS, << >>}

\* besides the tables of LocalMetadatas, one that has a regional Chinese
\* bundle of its own
FindMetadatas ==
  LocalMetadatas \cup
  { << [lang |-> EN, hash |-> HASH_EN], [lang |-> ZH_TW, hash |-> HASH_FR],
       [lang |-> ZH_HANS, hash |-> HASH_EN] >> }

\* what fetchTranslationPreferences(hass) may settle to
Preferences ==
  { [settled |-> "rejected", hasResult |-> FALSE, language |-> NULL],
    [settled |-> "resolved", hasResult |-> FALSE, language |-> NULL] }
  \cup { [settled |-> "resolved", hasResult |-> TRUE, language |-> l] :
           l \in {NULL, UNDEFINED, << >>, FR, <<"F", "R">>, DE,
                  <<"z", "h", "-", "C", "N">>} }

InitFind ==
  /\ metadata \in FindMetadatas
  /\ storedSel = UNDEFINED
  /\ navLanguages = [present |-> FALSE, list |-> << >>]
  /\ navLanguage \in {DE, <<"f", "r", "-", "C", "A">>}
  /\ localResult = [t |-> "none"]
  /\ findResult = [called |-> FALSE]
  /\ userResult = [called |-> FALSE]
  /\ pathResult = [called |-> FALSE]
  /\ translations = << >>
  /\ entries = << >>
  /\ requests = << >>
  /\ calls = << >>

\* some caller invokes findAvailableLanguage(code)
CallFindAvailableLanguage(code) ==
  /\ findResult' = [called |-> TRUE, arg |-> code,
                    res |-> findAvailableLanguage(code, metadata)]
  /\ UNCHANGED <<metadata, fetchVars, localVars, userResult, pathResult>>

\* some caller invokes getUserLanguage(hass) and the preference arrives
CallGetUserLanguage(preference) ==
  /\ userResult' = [called |-> TRUE, preference |-> preference,
                    res |-> getUserLanguage(preference, metadata)]
  /\ UNCHANGED <<metadata, fetchVars, localVars, findResult, pathResult>>

NextFind ==
  \/ \E code \in FindCodes : CallFindAvailableLanguage(code)
  \/ \E preference \in Preferences : CallGetUserLanguage(preference)
  \/ CallGetLocalLanguage

SpecFind == InitFind /\ [][NextFind]_vars

\* C11 as stated: for every code of the alias table in any letter case and
\* every content of the metadata, findAvailableLanguage returns the mapped
\* script variant.
C11_Original ==
  findResult.called =>
    \A a \in AliasSpellings :
       findResult.arg = a.code => findResult.res = Return(a.variant)

\* C11 amended: for every code of the alias table in any letter case, and
\* every content of the metadata that has no key spelled exactly like the
\* given code, findAvailableLanguage returns the mapped script variant.
C11_AliasUnlessExactKey ==
  findResult.called =>
    \A a \in AliasSpellings :
       (findResult.arg = a.code /\ a.code \notin MetaKeys(metadata))
          => findResult.res = Return(a.variant)

\* an upper-case regional code was mapped, with a table lacking the variant
C11_Witness ==
  /\ findResult.called
  /\ findResult.arg = <<"Z", "H", "-", "S", "G">>
  /\ ZH_HANS \notin MetaKeys(metadata)
  /\ findResult.res = Return(ZH_HANS)

----------------------------------------------------------------------------
(* Further properties of the translation fetcher *)

\* C12: once a fetch for a fingerprint has succeeded its cache entry is never
\* removed, and every later call computing that fingerprint gets the same
\* { language, data } value without a network request.
C12_SucceededEntryStays ==
  /\ \A r \in 1..Len(requests) :
        requests[r].status = "ok" =>
          /\ requests[r].fp \in DOMAIN translations
          /\ translations[requests[r].fp] = EntryOfRequest(r)
          /\ entries[EntryOfRequest(r)].state = "fulfilled"
          /\ r = LastRequestFor(requests, requests[r].fp)
  /\ \A c \in CallIds :
        calls[c].afterSuccess =>
          LET e == translations[calls[c].fp] IN
          /\ calls[c].issued = {}
          /\ calls[c].ret = e
          /\ CallOutcome(c) = [t |-> "resolved", language |-> entries[e].language,
                               data |-> entries[e].value]

\* a call was answered from an entry whose fetch had succeeded before
C12_Witness ==
  \E c \in CallIds :
     /\ calls[c].afterSuccess
     /\ calls[c].language = FR
     /\ CallOutcome(c).t = "resolved"

----------------------------------------------------------------------------
(* The request path: line 125-136 of getTranslation and line 101-107 of     *)
(* fetchTranslation, for one fragment, language and mode                    *)

SUPERVISOR == <<"s", "u", "p", "e", "r", "v", "i", "s", "o", "r">>

PathFragments ==
  { NULL, << >>, LOGBOOK, SUPERVISOR,
    SUPERVISOR_SLASH \o <<"x">>,
    <<"x", "/">> \o SUPERVISOR,
    SUPERVISOR_SLASH \o SUPERVISOR,
    <<"x">> \o SUPERVISOR_SLASH \o <<"y">> }

PathMetadatas ==
  FetchMetadatas \cup LocalMetadatas \cup {<< [lang |-> EN, hash |-> HASH_EN] >>}

InitPath ==
  /\ metadata \in PathMetadatas
  /\ storedSel = UNDEFINED
  /\ navLanguages = [present |-> FALSE, list |-> << >>]
  /\ navLanguage = UNDEFINED
  /\ localResult = [t |-> "none"]
  /\ findResult = [called |-> FALSE]
  /\ userResult = [called |-> FALSE]
  /\ pathResult = [called |-> FALSE]
  /\ translations = << >>
  /\ entries = << >>
  /\ requests = << >>
  /\ calls = << >>

\* the fingerprint and the URL of the request that getTranslation(fragment,
\* language, supervisor) makes for a language of the metadata
ComputeRequestPath(fragment, language, supervisor) ==
  /\ language \in MetaKeys(metadata)
  /\ LET hash == metadata[MetaLookup(metadata, language)].hash
         fingerprint == Fingerprint(fragment, language, hash)
     IN pathResult' = [called |-> TRUE, fragment |-> fragment,
                       language |-> language, supervisor |-> supervisor,
                       hash |-> hash, fingerprint |-> fingerprint,
                       path |-> RequestPath(fingerprint, supervisor)]
  /\ UNCHANGED <<metadata, fetchVars, localVars, findResult, userResult>>

NextPath ==
  \E fragment \in PathFragments, language \in MetaKeys(metadata),
     supervisor \in BOOLEAN : ComputeRequestPath(fragment, language, supervisor)

SpecPath == InitPath /\ [][NextPath]_vars

\* the part of a fingerprint that comes from the fragment
FragmentPart(fragment) ==
  IF fragment \in {NULL, << >>} THEN << >> ELSE fragment \o <<"/">>

\* the part of a fingerprint that comes from the language and its hash
BundleName(language, hash) ==
  language \o <<"-">> \o hash \o <<".", "j", "s", "o", "n">>

\* s without a leading "supervisor/"
WithoutLeadingSupervisor(s) ==
  IF Len(s) >= Len(SUPERVISOR_SLASH)
     /\ SubSeq(s, 1, Len(SUPERVISOR_SLASH)) = SUPERVISOR_SLASH
  THEN SubSeq(s, Len(SUPERVISOR_SLASH) + 1, Len(s))
  ELSE s

\* C13: in supervisor mode the path is /api/hassio/app/static/translations/
\* followed by the fingerprint with only a leading "supervisor/" of the
\* fragment removed; nothing else of the fingerprint is altered.
C13_Original ==
  (pathResult.called /\ pathResult.supervisor) =>
    pathResult.path =
      <<"/api/hassio/app/static/translations/">>
        \o WithoutLeadingSupervisor(FragmentPart(pathResult.fragment))
        \o BundleName(pathResult.language, pathResult.hash)

\* C14: in normal mode the path is /static/translations/ followed by the
\* fingerprint: the fragment and "/" (omitted for a null or empty fragment),
\* the language, "-", the hash of the language and ".json".
C14_NormalPath ==
  (pathResult.called /\ ~pathResult.supervisor) =>
    /\ pathResult.hash = metadata[MetaLookup(metadata, pathResult.language)].hash
    /\ pathResult.fingerprint =
         FragmentPart(pathResult.fragment)
           \o BundleName(pathResult.language, pathResult.hash)
    /\ pathResult.path = <<"/static/translations/">> \o pathResult.fingerprint
    /\ ( /\ metadata = << [lang |-> EN, hash |-> <<"a", "b", "c">>] >>
         /\ pathResult.fragment = <<"l", "o", "g", "b", "o", "o", "k">>
         /\ pathResult.language = EN )
       => pathResult.path =
            << "/static/translations/", "l", "o", "g", "b", "o", "o", "k", "/",
               "e", "n", "-", "a", "b", "c", ".", "j", "s", "o", "n" >>

\* the scenario of the specification: logbook, en, hash abc, normal mode
C14_Witness ==
  /\ pathResult.called
  /\ ~pathResult.supervisor
  /\ metadata = << [lang |-> EN, hash |-> HASH_EN] >>
  /\ pathResult.fragment = LOGBOOK
  /\ pathResult.language = EN

----------------------------------------------------------------------------
\* a result of the resolver that is a language code, not none or a failure
IsLanguage(res) == res.t = "return" /\ res.v \notin {UNDEFINED, NULL}

\* C15: every language code produced by findAvailableLanguage,
\* getUserLanguage or getLocalLanguage is a key of the supported-language
\* metadata, for every input and every content of the metadata.
C15_Original ==
  /\ (findResult.called /\ IsLanguage(findResult.res))
        => findResult.res.v \in MetaKeys(metadata)
  /\ (userResult.called /\ IsLanguage(userResult.res))
        => userResult.res.v \in MetaKeys(metadata)
  /\ (Called /\ IsLanguage(localResult))
        => localResult.v \in MetaKeys(metadata)

----------------------------------------------------------------------------
\* C16: while the request for a fingerprint has not completed, its cache
\* entry stays pending: no later call for that fingerprint issues a request,
\* none of them settles and no fallback to "en" is started.
C16_HungRequestStaysPending ==
  \A r \in 1..Len(requests) :
     requests[r].status = "inflight" =>
       LET e == EntryOfRequest(r)
           fp == requests[r].fp
       IN /\ fp \in DOMAIN translations
          /\ translations[fp] = e
          /\ entries[e].state = "pending"
          /\ entries[e].next = 0
          /\ r = LastRequestFor(requests, fp)
          /\ \A d \in CallIds :
                (calls[d].fp = fp /\ calls[d].seen >= r) =>
                   /\ calls[d].issued = {}
                   /\ calls[d].ret = e
                   /\ ~Settled(d)

\* a call arrived for a fingerprint whose request is still outstanding
C16_Witness ==
  \E r \in 1..Len(requests), d \in CallIds :
     /\ requests[r].status = "inflight"
     /\ calls[d].fp = requests[r].fp
     /\ calls[d].seen >= r

\* C17: whenever a call resolves, the returned language is the requested one
\* or "en", the data is the bundle fetched for the returned language and the
\* same fragment, and the language is the requested one whenever its own
\* fetch succeeded.
C17_ResolvedValue ==
  \A c \in CallIds :
     CallOutcome(c).t = "resolved" =>
       LET out == CallOutcome(c) IN
       /\ out.language \in {calls[c].language, EN}
       /\ out.language \in MetaKeys(metadata)
       /\ \E x \in Chain(entries, calls[c].ret) :
             /\ entries[x].fp = ComputedFingerprint(calls[c].fragment, out.language)
             /\ requests[entries[x].req].status = "ok"
             /\ entries[x].state = "fulfilled"
             /\ entries[x].value = out.data
       /\ ( /\ calls[c].language \in MetaKeys(metadata)
            /\ requests[entries[calls[c].ret].req].status = "ok" )
          => out.language = calls[c].language

\* a call for "fr" resolved with the "fr" bundle
C17_Witness ==
  \E c \in CallIds :
     /\ calls[c].language = FR
     /\ calls[c].fragment = LOGBOOK
     /\ CallOutcome(c).t = "resolved"
     /\ CallOutcome(c).language = FR

\* C18: each cache entry is pending or resolved with a value whose language
\* is the one named in its fingerprint key; an entry answered by the "en"
\* fallback, or rejected, is not in the cache.
C18_CacheHoldsOwnLanguage ==
  /\ \A fp \in DOMAIN translations :
        LET e == translations[fp] IN
        /\ entries[e].fp = fp
        /\ entries[e].state \in {"pending", "fulfilled"}
        /\ entries[e].state = "fulfilled" =>
              /\ EntryOutcome(entries, e).language \in MetaKeys(metadata)
              /\ fp = ComputedFingerprint(entries[e].fragment,
                                          EntryOutcome(entries, e).language)
  /\ \A e \in 1..Len(entries) :
        entries[e].state \in {"fallback", "rejected"} =>
          \A fp \in DOMAIN translations : translations[fp] # e

\* an entry answered by the fallback is gone while the "en" entry is cached
C18_Witness ==
  \E e \in 1..Len(entries) :
     /\ entries[e].state = "fallback"
     /\ EntryOutcome(entries, e).t = "resolved"
     /\ entries[e].fp \notin DOMAIN translations
     /\ translations # << >>

----------------------------------------------------------------------------
(* Every issued request eventually completes. The calls are those of one   *)
(* fragment in either mode, which keeps the behaviour graph small enough   *)
(* for the search of cycles.                                               *)
FairNext ==
  \/ \E language \in CallLanguages, supervisor \in BOOLEAN :
        CallGetTranslation(LOGBOOK, language, supervisor)
  \/ \E r \in 1..MaxRequests, response \in Responses : FetchSettles(r, response)

FairSpec ==
  /\ Init
  /\ [][FairNext]_vars
  /\ \A r \in 1..MaxRequests :
        WF_vars(\E response \in Responses : FetchSettles(r, response))

\* C20: if every issued request eventually completes, every getTranslation
\* call eventually settles, under any interleaving of the calls.
C20_EveryCallSettles ==
  \A c \in 1..MaxCalls :
     (Len(calls) >= c) ~> (Len(calls) >= c /\ Settled(c))

\* a call that arrived during the "en" fallback of another call has settled,
\* and so has the other
C20_Witness ==
  \E c, d \in CallIds :
     /\ c < d
     /\ c \in calls[d].unsettled
     /\ c \notin calls[d].fetching
     /\ Settled(c)
     /\ Settled(d)

====
